---------------------------- MODULE Spec2Model ----------------------------
(***************************************************************************)
(* SenecDataCollector (src/src/senec2mqtt/senec_data_collector.py): a      *)
(* threading.Thread that polls a device and puts each raw status into a    *)
(* queue.Queue, read by consumer threads through available_data, get_data  *)
(* and get_all_data.                                                       *)
(*                                                                         *)
(* One collector object is modelled: its constructor call, the background  *)
(* thread (run and _collect_data, one action per statement that another    *)
(* thread can observe) and a set of consumer threads.                      *)
(***************************************************************************)
EXTENDS Integers, Sequences, FiniteSets, TLC

\* ------------------------------------------------------------------ bounds

\* Largest interval_s handed to the constructor.
MaxInterval == 61

\* The Fetcher's results are drawn from 1..MaxVal.
MaxVal == 2

\* The loop starts at most MaxCycles fetch cycles.
MaxCycles == 3

\* --------------------------------------------------------------- constants

\* "if interval_s < 60: logging.warning(...)"
WarnInterval == 60

\* "if interval_s < 10: raise ValueError(...)"
MinInterval == 10

\* Python's None, as returned by get_data on queue.Empty.
None == 0

\* The interval_s arguments tried: both sides of each threshold of __init__.
Intervals == {-1, 0, MinInterval - 1, MinInterval,
              WarnInterval - 1, WarnInterval, MaxInterval}

DataValues == 1..MaxVal

\* The consumer threads.
Consumers == {1, 2}

\* The attributes __init__ assigns before / after its two checks.
EarlyAttrs == {"_host_ip", "_interval_s"}

LateAttrs == {"_stop_event", "_queue"}

VARIABLES
    ctor,            \* "none": __init__ not called; "ok": returned; "error": raised ValueError
    interval_s,      \* the interval_s argument / self._interval_s
    warned,          \* number of logging.warning calls made by __init__
    attrs,           \* the attributes assigned on self so far
    stop_event,      \* self._stop_event.is_set()
    queue,           \* self._queue, head first
    pc,              \* position of the background thread
    retval,          \* value _collect_data returned, about to be put
    nfetch,          \* number of Fetcher invocations (run_until_complete calls)
    fetched,         \* results of the fetch cycles that returned, in order
    enqueued,        \* every entry ever put, in order
    delivered,       \* every entry ever taken out of the queue, in order
    ext_stop,        \* stop() has been called from outside the thread
    puts_after_stop, \* number of puts that happened after an outside stop() returned
    cpc,             \* per consumer: "idle", "waiting" (in Queue.get(block=True)), "draining" (in get_all_data)
    data_list,       \* per consumer: get_all_data's local data_list
    ret,             \* per consumer: the last call that returned and its result
    mark,            \* per consumer, during a call: entries taken out of the queue before the call began
    empty_at_call,   \* per consumer, during a call: the queue was empty when the call began
    solo,            \* per consumer, during a call: no other consumer took an entry since the call began
    seen,            \* per consumer: Len(enqueued) when its last get_all_data returned, -1 before
    handed_out       \* every entry a consumer call has returned to its caller, in order of return

prod_vars == <<stop_event, pc, retval, nfetch, fetched, ext_stop>>

cons_vars == <<cpc, data_list, ret, mark, empty_at_call, solo, seen, handed_out>>

ctor_vars == <<ctor, interval_s, warned, attrs>>

vars == <<ctor, interval_s, warned, attrs, stop_event, queue, pc, retval, nfetch,
          fetched, enqueued, delivered, ext_stop, puts_after_stop,
          cpc, data_list, ret, mark, empty_at_call, solo, seen, handed_out>>

\* What a consumer's call returned: the method, whether the call waited in
\* Queue.get before it returned, the value (get_data, available_data) or the
\* list (get_all_data).
Returned(o, w, v, l) == [op |-> o, waited |-> w, val |-> v, list |-> l]

NoRet == Returned("none", FALSE, None, <<>>)

Init ==
    /\ ctor = "none"
    /\ interval_s = 0
    /\ warned = 0
    /\ attrs = {}
    /\ stop_event = FALSE
    /\ queue = <<>>
    /\ pc = "new"
    /\ retval = None
    /\ nfetch = 0
    /\ fetched = <<>>
    /\ enqueued = <<>>
    /\ delivered = <<>>
    /\ ext_stop = FALSE
    /\ puts_after_stop = 0
    /\ cpc = [c \in Consumers |-> "idle"]
    /\ data_list = [c \in Consumers |-> <<>>]
    /\ ret = [c \in Consumers |-> NoRet]
    /\ mark = [c \in Consumers |-> 0]
    /\ empty_at_call = [c \in Consumers |-> FALSE]
    /\ solo = [c \in Consumers |-> TRUE]
    /\ seen = [c \in Consumers |-> -1]
    /\ handed_out = <<>>

\* ------------------------------------------------------------- constructor

\* Faulty variant of WarnsAt: the warning threshold includes 60 itself.
WarnsAtInclusive(i) == i <= WarnInterval

\* "if interval_s < 60"
WarnsAt(i) == i < WarnInterval

\* Faulty variant of RejectsAt: an interval of exactly 10 is refused too.
RejectsAtInclusive(i) == i <= MinInterval

\* "if interval_s < 10"
RejectsAt(i) == i < MinInterval

\* __init__(senec_ip, interval_s)
Construct(i) ==
    /\ ctor = "none"
    /\ interval_s' = i
    /\ warned' = IF WarnsAt(i) THEN warned + 1 ELSE warned
    /\ IF RejectsAt(i)
         THEN /\ ctor' = "error"
              /\ attrs' = EarlyAttrs
         ELSE /\ ctor' = "ok"
              /\ attrs' = EarlyAttrs \cup LateAttrs
    /\ UNCHANGED <<stop_event, queue, pc, retval, nfetch, fetched, enqueued,
                   delivered, ext_stop, puts_after_stop>>
    /\ UNCHANGED cons_vars


\* ------------------------------------------------------------- queue.Queue

\* Queue.put(item) on an unbounded queue
QueuePut(q, x) == Append(q, x)

\* Faulty variant of QueueSize: the count is one too high.
QueueSizeOffByOne(q) == Len(q) + 1

\* Queue.qsize()
QueueSize(q) == Len(q)

\* Queue.get finds no item: block=False raises queue.Empty, block=True waits
QueueEmpty(q) == Len(q) = 0

\* the item Queue.get returns
QueueFront(q) == Head(q)

\* Faulty variant of QueueRest: Queue.get reads the front item and leaves it.
QueueRestKeeps(q) == q

\* the queue after Queue.get
QueueRest(q) == Tail(q)

\* ------------------------------------------------------- background thread

\* Faulty variant of Start: run() as a do-while loop, the body runs before the
\* flag is first read.
StartDoWhile ==
    /\ ctor = "ok"
    /\ pc = "new"
    /\ pc' = "collect"
    /\ UNCHANGED <<stop_event, retval, nfetch, fetched, ext_stop>>
    /\ UNCHANGED <<queue, enqueued, delivered, puts_after_stop>>
    /\ UNCHANGED ctor_vars
    /\ UNCHANGED cons_vars

\* Faulty variant of Start: a thread that has ended can be started again.
StartRestartable ==
    /\ ctor = "ok"
    /\ pc \in {"new", "done"}
    /\ pc' = "loop"
    /\ UNCHANGED <<stop_event, retval, nfetch, fetched, ext_stop>>
    /\ UNCHANGED <<queue, enqueued, delivered, puts_after_stop>>
    /\ UNCHANGED ctor_vars
    /\ UNCHANGED cons_vars

\* Thread.start(): the thread begins run(); a second start() raises RuntimeError
Start ==
    /\ ctor = "ok"
    /\ pc = "new"
    /\ pc' = "loop"
    /\ UNCHANGED <<stop_event, retval, nfetch, fetched, ext_stop>>
    /\ UNCHANGED <<queue, enqueued, delivered, puts_after_stop>>
    /\ UNCHANGED ctor_vars
    /\ UNCHANGED cons_vars

\* Faulty variant of Stop: stop() cuts a sleep in progress short and the
\* thread ends there.
StopInterruptsSleep ==
    /\ ctor = "ok"
    /\ stop_event' = TRUE
    /\ ext_stop' = TRUE
    /\ pc' = IF pc = "sleep" THEN "done" ELSE pc
    /\ UNCHANGED <<retval, nfetch, fetched>>
    /\ UNCHANGED <<queue, enqueued, delivered, puts_after_stop>>
    /\ UNCHANGED ctor_vars
    /\ UNCHANGED cons_vars

\* Faulty variant of Stop: stop() also puts a None into the queue, which wakes
\* a consumer waiting in get_data.
StopPutsSentinel ==
    /\ ctor = "ok"
    /\ stop_event' = TRUE
    /\ ext_stop' = TRUE
    /\ queue' = Append(queue, None)
    /\ enqueued' = Append(enqueued, None)
    /\ UNCHANGED <<pc, retval, nfetch, fetched>>
    /\ UNCHANGED <<delivered, puts_after_stop>>
    /\ UNCHANGED ctor_vars
    /\ UNCHANGED cons_vars

\* Faulty variant of Stop: the flag is flipped, so a second stop() clears it.
StopToggles ==
    /\ ctor = "ok"
    /\ stop_event' = ~stop_event
    /\ ext_stop' = TRUE
    /\ UNCHANGED <<pc, retval, nfetch, fetched>>
    /\ UNCHANGED <<queue, enqueued, delivered, puts_after_stop>>
    /\ UNCHANGED ctor_vars
    /\ UNCHANGED cons_vars

\* stop(), called by any thread other than the collector's own
Stop ==
    /\ ctor = "ok"
    /\ stop_event' = TRUE
    /\ ext_stop' = TRUE
    /\ UNCHANGED <<pc, retval, nfetch, fetched>>
    /\ UNCHANGED <<queue, enqueued, delivered, puts_after_stop>>
    /\ UNCHANGED ctor_vars
    /\ UNCHANGED cons_vars

\* Faulty variant of LoopContinues: "while True", the flag is never read.
LoopIgnoresFlag == TRUE

\* "while not self._stop_event.is_set()"
LoopContinues == ~stop_event

\* Faulty variant of LoopTest: the loop has no exit and spins on a set flag.
LoopTestNoExit ==
    /\ pc = "loop"
    /\ IF ~stop_event
         THEN /\ nfetch < MaxCycles
              /\ pc' = "collect"
         ELSE pc' = "loop"
    /\ UNCHANGED <<stop_event, retval, nfetch, fetched, ext_stop>>
    /\ UNCHANGED <<queue, enqueued, delivered, puts_after_stop>>
    /\ UNCHANGED ctor_vars
    /\ UNCHANGED cons_vars

\* run(): the loop test; on exit "collection thread stopped" and run returns
LoopTest ==
    /\ pc = "loop"
    /\ IF LoopContinues
         THEN /\ nfetch < MaxCycles
              /\ pc' = "collect"
         ELSE pc' = "done"
    /\ UNCHANGED <<stop_event, retval, nfetch, fetched, ext_stop>>
    /\ UNCHANGED <<queue, enqueued, delivered, puts_after_stop>>
    /\ UNCHANGED ctor_vars
    /\ UNCHANGED cons_vars

\* Faulty variant of FlagAfterSelfStop: _collect_data without its self.stop().
FlagWithoutSelfStop == stop_event

\* the stop flag after "# todo: remove me / self.stop()"
FlagAfterSelfStop == TRUE

\* _collect_data(): self.stop(), then the event loop is made and the fetch begins
CollectBegin ==
    /\ pc = "collect"
    /\ stop_event' = FlagAfterSelfStop
    /\ nfetch' = nfetch + 1
    /\ pc' = "fetch"
    /\ UNCHANGED <<retval, fetched, ext_stop>>
    /\ UNCHANGED <<queue, enqueued, delivered, puts_after_stop>>
    /\ UNCHANGED ctor_vars
    /\ UNCHANGED cons_vars

\* asyncio.gather(run(host)): the list of the results of the awaitables given
Gather(results) == results

\* "return collected_data[0]"
CollectResult(collected_data) == collected_data[1]

\* _collect_data(): run_until_complete returns the status v; the length check;
\* the value is returned to run()
FetchReturn(v) ==
    /\ pc = "fetch"
    /\ LET collected_data == Gather(<<v>>)
       IN  IF Len(collected_data) # 1
             THEN /\ pc' = "crashed"
                  /\ UNCHANGED <<retval, fetched>>
             ELSE /\ pc' = "put"
                  /\ retval' = CollectResult(collected_data)
                  /\ fetched' = Append(fetched, CollectResult(collected_data))
    /\ UNCHANGED <<stop_event, nfetch, ext_stop>>
    /\ UNCHANGED <<queue, enqueued, delivered, puts_after_stop>>
    /\ UNCHANGED ctor_vars
    /\ UNCHANGED cons_vars

\* Faulty variant of AfterFetchError: the exception is swallowed and run()
\* puts the None that results.
AfterFetchErrorPutsNone == "put"

\* where the thread is after an exception leaves _collect_data: run() has no
\* handler, so the exception leaves run() and the thread ends
AfterFetchError == "crashed"

\* _collect_data(): senec.update() raises inside run_until_complete
FetchRaise ==
    /\ pc = "fetch"
    /\ pc' = AfterFetchError
    /\ UNCHANGED <<stop_event, retval, nfetch, fetched, ext_stop>>
    /\ UNCHANGED <<queue, enqueued, delivered, puts_after_stop>>
    /\ UNCHANGED ctor_vars
    /\ UNCHANGED cons_vars

\* run(): "self._queue.put(...)" of the value _collect_data returned
Put ==
    /\ pc = "put"
    /\ queue' = QueuePut(queue, retval)
    /\ enqueued' = enqueued \o SubSeq(queue', Len(queue) + 1, Len(queue'))
    /\ puts_after_stop' = IF ext_stop THEN puts_after_stop + 1 ELSE puts_after_stop
    /\ retval' = None
    /\ pc' = "sleep"
    /\ UNCHANGED <<stop_event, nfetch, fetched, ext_stop, delivered>>
    /\ UNCHANGED ctor_vars
    /\ UNCHANGED cons_vars

\* run(): "time.sleep(self._interval_s)" returns
SleepDone ==
    /\ pc = "sleep"
    /\ pc' = "loop"
    /\ UNCHANGED <<stop_event, retval, nfetch, fetched, ext_stop>>
    /\ UNCHANGED <<queue, enqueued, delivered, puts_after_stop>>
    /\ UNCHANGED ctor_vars
    /\ UNCHANGED cons_vars

\* ---------------------------------------------------------------- consumers

\* Bookkeeping when consumer c begins a call that may take entries.
BeginCall(c) ==
    /\ mark' = [mark EXCEPT ![c] = Len(delivered)]
    /\ empty_at_call' = [empty_at_call EXCEPT ![c] = QueueEmpty(queue)]
    /\ solo' = [solo EXCEPT ![c] = TRUE]

\* Bookkeeping when consumer c's call returns; took says whether this step
\* takes an entry out of the queue.
EndCall(c, took) ==
    /\ mark' = [mark EXCEPT ![c] = 0]
    /\ empty_at_call' = [empty_at_call EXCEPT ![c] = FALSE]
    /\ solo' = [d \in Consumers |->
                  IF d = c THEN TRUE
                  ELSE IF took /\ cpc[d] # "idle" THEN FALSE ELSE solo[d]]

\* Queue.get takes the front item
TakeFront ==
    /\ queue' = QueueRest(queue)
    /\ delivered' = Append(delivered, QueueFront(queue))

\* available_data(): "return self._queue.qsize()"
AvailableData(c) ==
    /\ ctor = "ok"
    /\ cpc[c] = "idle"
    /\ ret' = [ret EXCEPT ![c] = Returned("available_data", FALSE, QueueSize(queue), <<>>)]
    /\ UNCHANGED <<cpc, data_list, mark, empty_at_call, solo, seen, handed_out>>
    /\ UNCHANGED <<queue, enqueued, delivered, puts_after_stop>>
    /\ UNCHANGED prod_vars
    /\ UNCHANGED ctor_vars

\* "except queue.Empty: return None"
OnEmpty == None

\* Faulty variant of Blocks: "self._queue.get(block=False)".
BlocksNever(block) == FALSE

\* Faulty variant of Blocks: "self._queue.get()", block left at its default.
BlocksAlways(block) == TRUE

\* "self._queue.get(block=block)": whether Queue.get waits on an empty queue
Blocks(block) == block

\* get_data(block): Queue.get(block=block) returns the front item at once when
\* there is one; on an empty queue it raises queue.Empty (block=False, turned
\* into None) or waits (block=True)
GetData(c, block) ==
    /\ ctor = "ok"
    /\ cpc[c] = "idle"
    /\ IF ~QueueEmpty(queue)
         THEN /\ TakeFront
              /\ ret' = [ret EXCEPT ![c] = Returned("get_data", FALSE, QueueFront(queue), <<>>)]
              /\ handed_out' = Append(handed_out, QueueFront(queue))
              /\ EndCall(c, TRUE)
              /\ UNCHANGED cpc
         ELSE IF Blocks(block)
           THEN /\ cpc' = [cpc EXCEPT ![c] = "waiting"]
                /\ BeginCall(c)
                /\ UNCHANGED <<queue, delivered, ret, handed_out>>
           ELSE /\ ret' = [ret EXCEPT ![c] = Returned("get_data", FALSE, OnEmpty, <<>>)]
                /\ EndCall(c, FALSE)
                /\ UNCHANGED <<queue, delivered, cpc, handed_out>>
    /\ UNCHANGED <<data_list, seen>>
    /\ UNCHANGED <<enqueued, puts_after_stop>>
    /\ UNCHANGED prod_vars
    /\ UNCHANGED ctor_vars

\* Queue.get(block=True) leaves its wait: "while not self._qsize(): not_empty.wait()"
WakesUp(q) == ~QueueEmpty(q)

\* get_data(block=True): the waiting Queue.get is woken by a put, takes the
\* front item and returns it
GetDataWake(c) ==
    /\ cpc[c] = "waiting"
    /\ WakesUp(queue)
    /\ TakeFront
    /\ ret' = [ret EXCEPT ![c] = Returned("get_data", TRUE, QueueFront(queue), <<>>)]
    /\ handed_out' = Append(handed_out, QueueFront(queue))
    /\ cpc' = [cpc EXCEPT ![c] = "idle"]
    /\ EndCall(c, TRUE)
    /\ UNCHANGED <<data_list, seen>>
    /\ UNCHANGED <<enqueued, puts_after_stop>>
    /\ UNCHANGED prod_vars
    /\ UNCHANGED ctor_vars

\* get_all_data(): "data_list: List[dict] = []"
GetAllBegin(c) ==
    /\ ctor = "ok"
    /\ cpc[c] = "idle"
    /\ cpc' = [cpc EXCEPT ![c] = "draining"]
    /\ data_list' = [data_list EXCEPT ![c] = <<>>]
    /\ BeginCall(c)
    /\ UNCHANGED <<ret, seen, handed_out>>
    /\ UNCHANGED <<queue, enqueued, delivered, puts_after_stop>>
    /\ UNCHANGED prod_vars
    /\ UNCHANGED ctor_vars

\* Faulty variant of ListAppend: the item taken is not kept.
ListAppendDropped(l, x) == l

\* "data_list.append(data)"
ListAppend(l, x) == Append(l, x)

\* Faulty variant of GetAllIter: "self.get_data()" with block left at its
\* default, so the pass waits on an empty queue instead of returning.
GetAllIterBlocking(c) ==
    /\ cpc[c] = "draining"
    /\ ~QueueEmpty(queue)
    /\ TakeFront
    /\ data_list' = [data_list EXCEPT ![c] = Append(data_list[c], QueueFront(queue))]
    /\ solo' = [d \in Consumers |->
                  IF d # c /\ cpc[d] # "idle" THEN FALSE ELSE solo[d]]
    /\ UNCHANGED <<cpc, ret, mark, empty_at_call, seen, handed_out>>
    /\ UNCHANGED <<enqueued, puts_after_stop>>
    /\ UNCHANGED prod_vars
    /\ UNCHANGED ctor_vars

\* get_all_data(): one pass of "while True": data = self.get_data(block=False);
\* append it, or break and return data_list when it is None
GetAllIter(c) ==
    /\ cpc[c] = "draining"
    /\ IF ~QueueEmpty(queue)
         THEN /\ TakeFront
              /\ data_list' = [data_list EXCEPT ![c] = ListAppend(data_list[c], QueueFront(queue))]
              /\ solo' = [d \in Consumers |->
                            IF d # c /\ cpc[d] # "idle" THEN FALSE ELSE solo[d]]
              /\ UNCHANGED <<cpc, ret, mark, empty_at_call, seen, handed_out>>
         ELSE /\ ret' = [ret EXCEPT ![c] = Returned("get_all_data", FALSE, None, data_list[c])]
              /\ cpc' = [cpc EXCEPT ![c] = "idle"]
              /\ data_list' = [data_list EXCEPT ![c] = <<>>]
              /\ seen' = [seen EXCEPT ![c] = Len(enqueued)]
              /\ handed_out' = handed_out \o data_list[c]
              /\ EndCall(c, FALSE)
              /\ UNCHANGED <<queue, delivered>>
    /\ UNCHANGED <<enqueued, puts_after_stop>>
    /\ UNCHANGED prod_vars
    /\ UNCHANGED ctor_vars

\* ----------------------------------------------------------- specification

ThreadStep ==
    \/ LoopTest
    \/ CollectBegin
    \/ \E v \in DataValues : FetchReturn(v)
    \/ FetchRaise
    \/ Put
    \/ SleepDone

Next ==
    \/ \E i \in Intervals : Construct(i)
    \/ Start
    \/ Stop
    \/ ThreadStep
    \/ \E c \in Consumers : AvailableData(c)
    \/ \E c \in Consumers, block \in BOOLEAN : GetData(c, block)
    \/ \E c \in Consumers : GetDataWake(c)
    \/ \E c \in Consumers : GetAllBegin(c)
    \/ \E c \in Consumers : GetAllIter(c)

Spec == Init /\ [][Next]_vars

\* The interpreter schedules every runnable thread: the background thread takes
\* its next step (a fetch in flight returns or raises, a sleep ends) and a
\* consumer woken by a put returns.
FairSpec ==
    /\ Spec
    /\ WF_vars(Start)
    /\ WF_vars(ThreadStep)
    /\ \A c \in Consumers : WF_vars(GetDataWake(c))
    /\ \A c \in Consumers : WF_vars(GetAllIter(c))

\* -------------------------------------------------------------------- claims

Terminated == pc \in {"done", "crashed"}

\* l is s with some entries left out: the entries of l, in l's order, appear in s.
IsSubseq(l, s) ==
    \E f \in [1..Len(l) -> 1..Len(s)] :
        /\ \A i, j \in 1..Len(l) : i < j => f[i] < f[j]
        /\ \A i \in 1..Len(l) : s[f[i]] = l[i]

\* C1: with a Fetcher that never fails and no outside call of stop(), the loop
\* never ends on its own: the thread reaches the end of run only after an
\* outside stop().
C1_LoopEndsOnlyWhenStopped == pc = "done" => ext_stop

\* C2: a failing fetch cycle does not end the background thread: the thread is
\* never ended by an exception.
C2_FailureContained == pc # "crashed"

\* C3: __init__ returns a collector, with stop flag and queue, for every
\* interval >= 10, and raises, with neither made, for every interval < 10.
C3_ConstructionThreshold ==
    ctor # "none" =>
        /\ interval_s >= 10 => (ctor = "ok" /\ LateAttrs \subseteq attrs)
        /\ interval_s < 10 => (ctor = "error" /\ attrs \cap LateAttrs = {})

C3_Witness_RejectedBelowTen == ctor = "error" /\ interval_s = 9 /\ attrs = EarlyAttrs

\* C4: __init__ logs a warning for every interval with 10 <= interval < 60 and
\* none for any interval >= 60.
C4_WarningThreshold ==
    ctor # "none" =>
        /\ (10 <= interval_s /\ interval_s < 60) => warned = 1
        /\ interval_s >= 60 => warned = 0

C4_Witness_WarnedAtFiftyNine == ctor = "ok" /\ interval_s = 59 /\ warned = 1

\* C5: after an outside stop() has returned, at most one more entry is put.
C5_AtMostOnePutAfterStop == puts_after_stop <= 1

C5_Witness_InFlightPut == ext_stop /\ puts_after_stop = 1 /\ pc = "sleep"

\* C6: once stop() has been called on a started collector, the background
\* thread eventually ends: it reaches the end of run, unless a fetch raised
\* and ended it before.
C6_StopLeadsToTermination == (pc # "new" /\ ext_stop) ~> Terminated

C6_Witness_StoppedInFlightThenDone == ext_stop /\ puts_after_stop = 1 /\ pc = "done"

\* C7: when get_all_data returns it has seen the queue empty, and its list holds
\* entries in the order of their enqueueing: with no other consumer taking
\* entries meanwhile the list is exactly the entries enqueued and not taken out
\* before the call, in enqueue order; and a get_all_data that returns with no
\* entry enqueued since the caller's previous get_all_data returned gives <<>>.
C7_GetAllFifo ==
    [][\A c \in Consumers :
        (cpc[c] = "draining" /\ cpc'[c] = "idle") =>
            /\ ret'[c].op = "get_all_data"
            /\ queue = <<>> /\ queue' = <<>>
            /\ IsSubseq(ret'[c].list, SubSeq(enqueued, mark[c] + 1, Len(enqueued)))
            /\ solo[c] => ret'[c].list = SubSeq(enqueued, mark[c] + 1, Len(enqueued))
            /\ seen[c] = Len(enqueued) => ret'[c].list = <<>>
      ]_vars

C7_Witness_DrainedThenEmpty ==
    \E c \in Consumers :
        /\ ret[c].op = "get_all_data" /\ ret[c].list = <<>>
        /\ seen[c] = 1 /\ delivered = enqueued
        /\ \E d \in Consumers : d # c /\ ret[d].op = "get_all_data" /\ ret[d].list = enqueued

\* C8: get_data(block=True) on an empty queue does not return: the caller waits
\* for as long as the queue is empty, and when it returns it returns the front
\* entry and removes it, an entry enqueued after the call began: the first such
\* entry when no other consumer took one meanwhile.
C8_BlockingGetWaits ==
    [][\A c \in Consumers :
        /\ (GetData(c, TRUE) /\ queue = <<>>) => (cpc'[c] = "waiting" /\ ret'[c] = ret[c])
        /\ (cpc[c] = "waiting" /\ queue = <<>>) => (cpc'[c] = "waiting" /\ ret'[c] = ret[c])
        /\ (cpc[c] = "waiting" /\ cpc'[c] # "waiting") =>
              /\ ret'[c].op = "get_data" /\ ret'[c].val = Head(queue)
              /\ queue' = Tail(queue)
              /\ \E k \in (mark[c] + 1)..Len(enqueued) : ret'[c].val = enqueued[k]
              /\ solo[c] => ret'[c].val = enqueued[mark[c] + 1]
      ]_vars

C8_Witness_WaitedThenReturned ==
    \E c \in Consumers :
        ret[c].op = "get_data" /\ ret[c].waited /\ ret[c].val = enqueued[1] /\ queue = <<>>

\* C9: get_data(block=False) returns at once: on an empty queue it returns None
\* and leaves the queue and the stop flag as they were; on a non-empty queue it
\* returns the front entry and removes it.
C9_NonBlockingGet ==
    [][\A c \in Consumers :
        GetData(c, FALSE) =>
            /\ cpc'[c] = "idle"
            /\ ret'[c].op = "get_data"
            /\ stop_event' = stop_event
            /\ IF queue = <<>>
                 THEN ret'[c].val = 0 /\ queue' = queue
                 ELSE ret'[c].val = Head(queue) /\ queue' = Tail(queue)
      ]_vars

C9_Witness_NoneOnEmpty ==
    \E c \in Consumers :
        ret[c].op = "get_data" /\ ret[c].val = 0 /\ cpc[c] = "idle" /\ queue = <<>>

\* C10: the entries enqueued are the results of the fetches that returned, in
\* order: as many as those fetches or one less, the k-th entry being the
\* result of the k-th fetch.
C10_EnqueueMatchesFetch ==
    /\ Len(enqueued) \in {Len(fetched), Len(fetched) - 1}
    /\ \A k \in 1..Len(enqueued) : enqueued[k] = fetched[k]

C10_Witness_FetchedNotYetPut == Len(fetched) = 1 /\ enqueued = <<>> /\ pc = "put"

\* The collector's own state: everything but the records kept about its history.
program_state == <<ctor, interval_s, attrs, stop_event, queue, pc, retval, cpc, data_list>>

\* C11: available_data returns the number of entries in the queue at once and
\* changes nothing: the queue, its order and the stop flag stay as they were.
C11_AvailableDataReadsOnly ==
    [][\A c \in Consumers :
        AvailableData(c) =>
            /\ ret'[c].op = "available_data"
            /\ ret'[c].val = Len(queue)
            /\ cpc'[c] = "idle"
            /\ queue' = queue
            /\ stop_event' = stop_event
            /\ enqueued' = enqueued /\ delivered' = delivered
      ]_vars

C11_Witness_CountedOne ==
    \E c \in Consumers : ret[c].op = "available_data" /\ ret[c].val = 1 /\ Len(queue) = 1

\* C12: stop() is idempotent: every stop() leaves the flag set and the queue
\* untouched, and a stop() in a state whose flag is already set changes
\* nothing of the collector's state, so the state after two calls is the state
\* after one.
C12_StopIdempotent ==
    [][Stop =>
          /\ stop_event'
          /\ queue' = queue
          /\ stop_event => program_state' = program_state
      ]_vars

C12_Witness_StoppedWithEntry == ext_stop /\ stop_event /\ Len(queue) = 1 /\ pc = "sleep"

\* C13: stopping is final: no step clears a set stop flag, and once the thread
\* has left the loop it stays ended, invokes no fetch and puts no entry.
C13_StopIsFinal ==
    [][/\ stop_event => stop_event'
       /\ Terminated => (pc' = pc /\ nfetch' = nfetch /\ enqueued' = enqueued)
      ]_vars

C13_Witness_EndedAfterOneCycle == pc = "done" /\ stop_event /\ nfetch = 1 /\ Len(enqueued) = 1

\* C14: a fetch cycle sets the collector's own stop flag before it fetches:
\* the flag is set whenever a fetch is in flight or its result is held, and so
\* the Fetcher is invoked at most once and at most one entry is ever enqueued.
C14_SingleShot ==
    /\ pc \in {"fetch", "put", "sleep"} => stop_event
    /\ nfetch <= 1
    /\ Len(enqueued) <= 1

C14_Witness_SelfStopped ==
    pc = "done" /\ ~ext_stop /\ stop_event /\ nfetch = 1 /\ Len(enqueued) = 1

\* The flag is set and the thread has not fetched and is at no point from
\* which it goes on to fetch without reading the flag.
StoppedBeforeFetch ==
    /\ stop_event
    /\ pc \in {"new", "loop", "done"}
    /\ nfetch = 0
    /\ enqueued = <<>>

\* C15: the loop reads the stop flag at the top of each iteration and only
\* there: a loop test that finds the flag set ends run without a fetch or a
\* put, run ends by no other step, and a collector stopped before its first
\* loop test (so also one stopped before start()) never invokes the Fetcher
\* and its queue stays empty.
C15_FlagReadAtLoopTop ==
    [][/\ (LoopTest /\ stop_event) =>
              (pc' = "done" /\ nfetch' = nfetch /\ enqueued' = enqueued /\ queue' = queue)
       /\ (pc # "done" /\ pc' = "done") => (pc = "loop" /\ stop_event)
       /\ (pc = "loop" /\ pc' = "collect") => ~stop_event
       /\ StoppedBeforeFetch => StoppedBeforeFetch'
      ]_vars

C15_Witness_StoppedBeforeFirstTest ==
    pc = "done" /\ ext_stop /\ nfetch = 0 /\ enqueued = <<>> /\ queue = <<>>

\* C16: stop() does not cut the sleep short: from the put to the end of the
\* sleep that follows it the thread does not end, whatever stop() calls are
\* made; the thread leaves the sleep only to the next loop test.
C16_SleepNotInterrupted ==
    [][/\ pc = "put" => pc' \in {"put", "sleep"}
       /\ pc = "sleep" => pc' \in {"sleep", "loop"}
       /\ Stop => pc' = pc
      ]_vars

C16_Witness_StoppedDuringSleep ==
    pc = "sleep" /\ ext_stop /\ puts_after_stop = 0 /\ Len(enqueued) = 1

\* C17: a failed fetch cycle enqueues nothing: the failing step and every step
\* after it leave the queue's history as it was, every entry enqueued or
\* handed to a consumer is the result of a fetch that returned, and while no
\* fetch has returned the queue is empty.
C17_FailedCycleEnqueuesNothing ==
    [][/\ FetchRaise => (queue' = queue /\ enqueued' = enqueued)
       /\ pc = "crashed" => enqueued' = enqueued
       /\ Len(enqueued') <= Len(fetched')
       /\ \A i \in 1..Len(handed_out') : \E k \in 1..Len(fetched') : handed_out'[i] = fetched'[k]
       /\ fetched' = <<>> => queue' = <<>>
      ]_vars

C17_Witness_FailedAndEmpty ==
    /\ pc = "crashed" /\ nfetch = 1 /\ queue = <<>> /\ enqueued = <<>>
    /\ \E c \in Consumers : ret[c].op = "get_data" /\ ret[c].val = 0

\* C18: get_all_data never waits and always ends: each pass of its loop can
\* run at once; a pass that finds an entry takes it and keeps it, a pass that
\* finds the queue empty returns the list kept so far, which with no other
\* consumer taking entries is exactly the entries taken out of the queue since
\* the call began; a put made after a caller's get_all_data has returned adds
\* to the queue and not to the list returned; and every call returns: no
\* consumer stays in get_all_data for ever.
C18_GetAllTerminates ==
    /\ [][\A c \in Consumers :
            /\ (GetAllIter(c) /\ queue # <<>>) =>
                  /\ cpc'[c] = "draining"
                  /\ data_list'[c] = Append(data_list[c], Head(queue))
                  /\ queue' = Tail(queue)
            /\ (GetAllIter(c) /\ queue = <<>>) =>
                  /\ cpc'[c] = "idle"
                  /\ ret'[c].op = "get_all_data"
                  /\ ret'[c].list = data_list[c]
                  /\ solo[c] => ret'[c].list = SubSeq(delivered, mark[c] + 1, Len(delivered))
                  /\ queue' = queue
            /\ (Put /\ cpc[c] = "idle") =>
                  /\ ret'[c] = ret[c]
                  /\ Len(queue') = Len(queue) + 1
         ]_vars
    /\ [](\A c \in Consumers : cpc[c] = "draining" => ENABLED GetAllIter(c))
    /\ \A c \in Consumers : []<>(cpc[c] # "draining")

C18_Witness_LatePutStays ==
    \E c \in Consumers :
        /\ cpc[c] = "idle" /\ ret[c].op = "get_all_data" /\ ret[c].list = <<>>
        /\ seen[c] = 0 /\ Len(queue) = 1 /\ delivered = <<>>

\* The entries the running get_all_data calls of the consumers in S hold.
RECURSIVE HeldBy(_)
HeldBy(S) ==
    IF S = {} THEN <<>>
    ELSE LET c == CHOOSE x \in S : TRUE
         IN  data_list[c] \o HeldBy(S \ {c})

\* The number of occurrences of v in the sequence l.
Count(v, l) == Cardinality({i \in 1..Len(l) : l[i] = v})

\* C19: no entry is lost or duplicated: the entries ever enqueued are the
\* entries taken out, in order, followed by the entries still in the queue;
\* every entry taken out has been returned to exactly one caller or is held
\* by exactly one running get_all_data; and only the background thread's put
\* adds entries.
C19_NoLossNoDuplication ==
    /\ [](enqueued = delivered \o queue)
    /\ [](Len(handed_out) + Len(HeldBy(Consumers)) = Len(delivered))
    /\ [](\A v \in DataValues \cup {None} :
            Count(v, handed_out \o HeldBy(Consumers)) = Count(v, delivered))
    /\ [][(enqueued' # enqueued \/ Len(queue') > Len(queue)) => Put]_vars

C19_Witness_HandedToOneCaller ==
    /\ Len(enqueued) = 1 /\ handed_out = enqueued /\ queue = <<>>
    /\ \E c, d \in Consumers :
          /\ c # d
          /\ ret[c].op = "get_all_data" /\ ret[c].list = enqueued
          /\ ret[d].op = "get_data" /\ ret[d].val = 0

\* No put can follow: the thread has ended, or the flag is set and the thread
\* is at a point from which it reaches the end of run without a put.
NoProducerLeft ==
    \/ Terminated
    \/ stop_event /\ pc \in {"new", "loop", "sleep"}

\* Consumer c waits in get_data(block=True) on an empty queue that no put
\* will fill.
Stuck(c) == cpc[c] = "waiting" /\ queue = <<>> /\ NoProducerLeft

\* C20: a consumer waiting in get_data(block=True) on an empty queue, when no
\* producer is left (the thread has ended, died in a failing fetch, or was
\* stopped before start), waits forever: no step of any thread ends the wait.
C20_BlockedForever == [][\A c \in Consumers : Stuck(c) => Stuck(c)']_vars

C20_Witness_WaitingOnDeadProducer ==
    \E c \in Consumers : Stuck(c) /\ pc = "crashed" /\ ret[c].op = "none"

=============================================================================
